---- MODULE Spec2Model ----
(***************************************************************************)
(* Project Guardian 2.0 -- PII detector and redactor                       *)
(* (detector_full_candidate_name.py).                                      *)
(*                                                                         *)
(* Text is a sequence of one-character strings.  Every regular expression  *)
(* of the program is an operator over such sequences that computes what    *)
(* Python's re module computes for it (leftmost, non-overlapping matches,  *)
(* greedy quantifiers, \b word boundaries, look-arounds).                  *)
(***************************************************************************)
EXTENDS Integers, Sequences, FiniteSets

(***************************************************************************)
(* Character classes                                                       *)
(***************************************************************************)
Digit == {"0", "1", "2", "3", "4", "5", "6", "7", "8", "9"}

Upper == {"A", "B", "C", "D", "E", "F", "G", "H", "I", "J", "K", "L", "M",
          "N", "O", "P", "Q", "R", "S", "T", "U", "V", "W", "X", "Y", "Z"}

Lower == {"a", "b", "c", "d", "e", "f", "g", "h", "i", "j", "k", "l", "m",
          "n", "o", "p", "q", "r", "s", "t", "u", "v", "w", "x", "y", "z"}

Letter == Upper \cup Lower

\* \w of the re module (ASCII part)
WordCh == Letter \cup Digit \cup {"_"}

\* \s of the re module; the texts of the model use the blank only
Space == {" "}

\* [A-PR-WYa-pr-wy]
PassportLetter == Letter \ {"Q", "X", "Z", "q", "x", "z"}

\* [A-Za-z0-9._-]
UpiCh == Letter \cup Digit \cup {".", "_", "-"}

\* [A-Za-z0-9._%+-]
EmailLocalCh == Letter \cup Digit \cup {".", "_", "%", "+", "-"}

\* [A-Za-z0-9.-]
EmailDomCh == Letter \cup Digit \cup {".", "-"}

\* [A-Za-z.'-]
NameCh == Letter \cup {".", "'", "-"}

\* The character at position i, "" outside the text (in no class).
At(s, i) == IF i >= 1 /\ i <= Len(s) THEN s[i] ELSE ""

\* \b between positions i-1 and i.
IsBoundary(s, i) == (At(s, i - 1) \in WordCh) # (At(s, i) \in WordCh)

\* The first position >= i (i <= Len(s) + 1) that holds no character of class C.
RunEnd(s, i, C) ==
    CHOOSE j \in i..(Len(s) + 1) :
        /\ At(s, j) \notin C
        /\ \A k \in i..(j - 1) : s[k] \in C

\* (?<!\d)(\d{n})(?!\d) matches at i.
DigitRunAt(s, i, n) ==
    /\ At(s, i - 1) \notin Digit
    /\ \A k \in 0..(n - 1) : At(s, i + k) \in Digit
    /\ At(s, i + n) \notin Digit

Xs(n) == [i \in 1..n |-> "X"]

(***************************************************************************)
(* Regexes (lines 17-22): each gives the match found at a position         *)
(***************************************************************************)
\* RE_TEN_DIGITS: the starts of all matches (maximal runs of exactly 10 digits).
RE_TEN_DIGITS(s) == {i \in 1..Len(s) : DigitRunAt(s, i, 10)}

\* RE_AADHAR: the starts of all matches (maximal runs of exactly 12 digits).
RE_AADHAR(s) == {i \in 1..Len(s) : DigitRunAt(s, i, 12)}

\* RE_PASSPORT matches at i: \b, one letter of the set, 7 digits, \b.
PassportAt(s, i) ==
    /\ IsBoundary(s, i)
    /\ At(s, i) \in PassportLetter
    /\ \A k \in 1..7 : At(s, i + k) \in Digit
    /\ IsBoundary(s, i + 8)

RE_PASSPORT(s) == {i \in 1..Len(s) : PassportAt(s, i)}

\* RE_UPI tried at i: [st, at, en] (start, position of "@", end), en = 0 when
\* it does not match there.  The handle is the run of UpiCh from i, which must
\* stop at "@"; the provider is a letter and then the longest run of UpiCh
\* (at least one) that ends at a word boundary.
UpiAt(s, i) ==
    LET at  == RunEnd(s, i, UpiCh)
        top == RunEnd(s, at + 2, UpiCh) - 1
        ends == {e \in (at + 2)..top : IsBoundary(s, e + 1)}
    IN  IF /\ IsBoundary(s, i)
           /\ at - i >= 2
           /\ At(s, at) = "@"
           /\ At(s, at + 1) \in Letter
           /\ ends # {}
        THEN [st |-> i, at |-> at, en |-> CHOOSE e \in ends : \A f \in ends : f <= e]
        ELSE [st |-> i, at |-> 0, en |-> 0]

\* RE_EMAIL tried at i: the local part is the run of EmailLocalCh from i (1 to
\* 64 characters), which must stop at "@"; the domain is the longest run of
\* EmailDomCh that is followed by ".", 2 to 24 letters and a word boundary.
EmailAt(s, i) ==
    LET at  == RunEnd(s, i, EmailLocalCh)
        top == RunEnd(s, at + 1, EmailDomCh) - 1
        tld(p) == RunEnd(s, p + 2, Letter) - 1
        ends == {p \in (at + 1)..top :
                    /\ At(s, p + 1) = "."
                    /\ tld(p) - (p + 1) >= 2
                    /\ tld(p) - (p + 1) <= 24
                    /\ IsBoundary(s, tld(p) + 1)}
    IN  IF /\ IsBoundary(s, i)
           /\ at - i >= 1
           /\ at - i <= 64
           /\ At(s, at) = "@"
           /\ ends # {}
        THEN [st |-> i, at |-> at,
              en |-> tld(CHOOSE p \in ends : \A q \in ends : q <= p)]
        ELSE [st |-> i, at |-> 0, en |-> 0]

\* RE_IPV4 tried at i: [st, at, en] with at the start of the last octet, en = 0
\* when it does not match there.  Each octet is a run of 1 to 3 digits.
IPv4At(s, i) ==
    LET e1 == RunEnd(s, i, Digit)
        e2 == RunEnd(s, e1 + 1, Digit)
        e3 == RunEnd(s, e2 + 1, Digit)
        e4 == RunEnd(s, e3 + 1, Digit)
        octet(a, b) == b - a >= 1 /\ b - a <= 3
    IN  IF /\ IsBoundary(s, i)
           /\ octet(i, e1) /\ At(s, e1) = "."
           /\ octet(e1 + 1, e2) /\ At(s, e2) = "."
           /\ octet(e2 + 1, e3) /\ At(s, e3) = "."
           /\ octet(e3 + 1, e4) /\ IsBoundary(s, e4)
        THEN [st |-> i, at |-> e3 + 1, en |-> e4 - 1]
        ELSE [st |-> i, at |-> 0, en |-> 0]

\* finditer / sub: the leftmost non-overlapping matches from position i on.
RECURSIVE UpiFrom(_, _)
UpiFrom(s, i) ==
    IF i > Len(s) THEN {}
    ELSE IF UpiAt(s, i).en > 0
         THEN {UpiAt(s, i)} \cup UpiFrom(s, UpiAt(s, i).en + 1)
         ELSE UpiFrom(s, i + 1)

RECURSIVE EmailFrom(_, _)
EmailFrom(s, i) ==
    IF i > Len(s) THEN {}
    ELSE IF EmailAt(s, i).en > 0
         THEN {EmailAt(s, i)} \cup EmailFrom(s, EmailAt(s, i).en + 1)
         ELSE EmailFrom(s, i + 1)

RECURSIVE IPv4From(_, _)
IPv4From(s, i) ==
    IF i > Len(s) THEN {}
    ELSE IF IPv4At(s, i).en > 0
         THEN {IPv4At(s, i)} \cup IPv4From(s, IPv4At(s, i).en + 1)
         ELSE IPv4From(s, i + 1)

RE_UPI(s)   == UpiFrom(s, 1)
RE_EMAIL(s) == EmailFrom(s, 1)
RE_IPV4(s)  == IPv4From(s, 1)

(***************************************************************************)
(* Masking helpers (lines 39-85)                                           *)
(***************************************************************************)
\* d[:2] + "X"*6 + d[-2:] for every match
mask_phone_digits(s) ==
    LET ms == RE_TEN_DIGITS(s)
    IN  [i \in 1..Len(s) |->
            IF \E m \in ms : i \in (m + 2)..(m + 7) THEN "X" ELSE s[i]]

\* (?<!\d)(\d{4})\s*(\d{4})\s*(\d{4})(?!\d) tried at i: the starts of the
\* three groups, <<>> when it does not match there.
GroupedAt(s, i) ==
    LET quad(a) == \A k \in 0..3 : At(s, a + k) \in Digit
        g2 == RunEnd(s, i + 4, Space)
        g3 == RunEnd(s, g2 + 4, Space)
    IN  IF /\ At(s, i - 1) \notin Digit
           /\ quad(i)
           /\ quad(g2)
           /\ quad(g3)
           /\ At(s, g3 + 4) \notin Digit
        THEN <<i, g2, g3>>
        ELSE <<>>

\* s_norm: every 4-4-4 grouping collapsed into one run of 12 digits
RECURSIVE NormFrom(_, _)
NormFrom(s, i) ==
    IF i > Len(s) THEN <<>>
    ELSE LET g == GroupedAt(s, i)
         IN  IF g # <<>>
             THEN SubSeq(s, g[1], g[1] + 3) \o SubSeq(s, g[2], g[2] + 3)
                    \o SubSeq(s, g[3], g[3] + 3) \o NormFrom(s, g[3] + 4)
             ELSE <<s[i]>> \o NormFrom(s, i + 1)

\* "XXXX XXXX " + d[-4:] for every match of RE_AADHAR, from position i on
RECURSIVE AadharSubFrom(_, _)
AadharSubFrom(s, i) ==
    IF i > Len(s) THEN <<>>
    ELSE IF DigitRunAt(s, i, 12)
         THEN Xs(4) \o <<" ">> \o Xs(4) \o <<" ">> \o SubSeq(s, i + 8, i + 11)
                \o AadharSubFrom(s, i + 12)
         ELSE <<s[i]>> \o AadharSubFrom(s, i + 1)

mask_aadhar_digits(s) == AadharSubFrom(NormFrom(s, 1), 1)

\* p[0] + "X"*6 + p[-1] for every match
mask_passport_in(s) ==
    LET ms == RE_PASSPORT(s)
    IN  [i \in 1..Len(s) |->
            IF \E m \in ms : i \in (m + 1)..(m + 6) THEN "X" ELSE s[i]]

\* user[:keep] + "X"*(len(user)-keep) + "@" + prov, keep = min(2, len(user))
mask_upi_in(s) ==
    LET ms == RE_UPI(s)
    IN  [i \in 1..Len(s) |->
            IF \E m \in ms : i \in (m.st + 2)..(m.at - 1) THEN "X" ELSE s[i]]

\* local[:keep] + "X"*(len(local)-keep) + "@" + dom, keep = min(2, len(local))
mask_email_str(s) ==
    LET ms == RE_EMAIL(s)
    IN  [i \in 1..Len(s) |->
            IF \E m \in ms : i \in (m.st + 2)..(m.at - 1) THEN "X" ELSE s[i]]

\* re.split(r'(\s+)', s): the start and the end of the token that holds
\* position i, and the starts of all tokens.
TokStart(s, i) ==
    CHOOSE j \in 1..i : /\ At(s, j - 1) \in Space \cup {""}
                        /\ \A k \in j..i : s[k] \notin Space

TokEnd(s, i) ==
    CHOOSE e \in i..Len(s) : /\ At(s, e + 1) \in Space \cup {""}
                             /\ \A k \in i..e : s[k] \notin Space

TokStarts(s) == {j \in 1..Len(s) : s[j] \notin Space /\ At(s, j - 1) \in Space \cup {""}}

\* re.fullmatch(r"[A-Za-z][A-Za-z.'-]*", t) for the token t that starts at j
IsNameTok(s, j) ==
    /\ s[j] \in Letter
    /\ \A k \in j..TokEnd(s, j) : s[k] \in NameCh

mask_name_full(s) ==
    [i \in 1..Len(s) |->
        IF /\ s[i] \notin Space
           /\ TokStart(s, i) # i
           /\ IsNameTok(s, TokStart(s, i))
        THEN "X" ELSE s[i]]

\* the last octet of every match replaced by "X", from position i on
RECURSIVE IpSubFrom(_, _)
IpSubFrom(s, i) ==
    IF i > Len(s) THEN <<>>
    ELSE LET m == IPv4At(s, i)
         IN  IF m.en > 0
             THEN SubSeq(s, i, m.at - 1) \o <<"X">> \o IpSubFrom(s, m.en + 1)
             ELSE <<s[i]>> \o IpSubFrom(s, i + 1)

mask_ip_in(s) == IpSubFrom(s, 1)

REDACTED == <<"[", "R", "E", "D", "A", "C", "T", "E", "D", "_", "P", "I", "I", "]">>

hard_redact(s) == REDACTED

(***************************************************************************)
(* Values: None, a text, or a number (str() gives its digits)              *)
(***************************************************************************)
None == [t |-> "none", s |-> <<>>]
Text(s) == [t |-> "str", s |-> s]
Num(s) == [t |-> "int", s |-> s]

\* bool(value)
Truthy(v) == v.t # "none" /\ v.s # <<>> /\ ~(v.t = "int" /\ v.s = <<"0">>)

\* str(value or "")
StrOr(v) == IF Truthy(v) THEN v.s ELSE <<>>

(***************************************************************************)
(* Utilities (lines 88-95)                                                 *)
(***************************************************************************)
looks_like_full_name(val) ==
    LET s == StrOr(val)
    IN  Cardinality({j \in TokStarts(s) : IsNameTok(s, j)}) >= 2

valid_email(val) == RE_EMAIL(val.s) # {}

(***************************************************************************)
(* Field roles (lines 24-36)                                               *)
(***************************************************************************)
NUMERIC_ID_KEYS == {"order_id", "transaction_id", "product_id", "booking_reference",
                    "customer_id", "warehouse_code", "ticket_id", "gst_number",
                    "state_code"}
B_NAME_KEYS    == {"name"}
B_FIRST        == "first_name"
B_LAST         == "last_name"
B_EMAIL_KEYS   == {"email", "username"}
B_ADDRESS_KEYS == {"address"}
B_ADDR_PARTS   == {"city", "state", "pin_code"}
B_DEVICE_KEYS  == {"device_id"}
B_IP_KEYS      == {"ip_address"}

\* rec.get(k)
Get(rec, k) == IF k \in DOMAIN rec THEN rec[k] ELSE None

(***************************************************************************)
(* count_b_signals (lines 109-125)                                         *)
(***************************************************************************)
\* lines 111-113
name_signal(rec) ==
    IF Truthy(Get(rec, "name")) /\ looks_like_full_name(rec["name"]) THEN TRUE
    ELSE IF Truthy(Get(rec, B_FIRST)) /\ Truthy(Get(rec, B_LAST)) THEN TRUE
    ELSE FALSE

\* lines 115-116
email_signal(rec) == \E k \in B_EMAIL_KEYS : Truthy(Get(rec, k)) /\ valid_email(rec[k])

\* line 118
addr_parts_of(rec) == Cardinality({k \in B_ADDR_PARTS : Truthy(Get(rec, k))})

\* Variant of address_signal: one address part is enough (>= 1 for >= 2).
address_signal_one_part(rec) == Truthy(Get(rec, "address")) \/ addr_parts_of(rec) >= 1

\* lines 119-120
address_signal(rec) == Truthy(Get(rec, "address")) \/ addr_parts_of(rec) >= 2

\* lines 122-124
device_or_ip_signal(rec) ==
    \/ \E k \in B_DEVICE_KEYS : Truthy(Get(rec, k))
    \/ Truthy(Get(rec, "ip_address")) /\ RE_IPV4(rec["ip_address"].s) # {}

\* line 125: the count of the true flags
signals(flags, addr_parts, has_addr_field) ==
    [b_count |-> Cardinality({f \in DOMAIN flags : flags[f]}),
     flags |-> flags,
     addr_parts |-> addr_parts,
     has_addr_field |-> has_addr_field]

count_b_signals(rec) ==
    signals([name |-> name_signal(rec), email |-> email_signal(rec),
             address |-> address_signal(rec),
             device_or_ip |-> device_or_ip_signal(rec)],
            addr_parts_of(rec),
            Truthy(Get(rec, "address")))

(***************************************************************************)
(* detect_a_in_value (lines 128-136)                                       *)
(***************************************************************************)
\* re.sub(r'\s+', '', s)
StripSpace(s) == SelectSeq(s, LAMBDA c : c \notin Space)

\* Variant of a_found: the key is not looked at, so exempt fields are scanned
\* for phone and national-ID numbers too.
a_found_no_exempt(key, s) ==
    [phone    |-> RE_TEN_DIGITS(s) # {},
     aadhar   |-> RE_AADHAR(StripSpace(s)) # {},
     passport |-> RE_PASSPORT(s) # {},
     upi      |-> RE_UPI(s) # {}]

\* Variant of a_found: email and IPv4 addresses are reported as well.
a_found_six(key, s) ==
    [phone    |-> key \notin NUMERIC_ID_KEYS /\ RE_TEN_DIGITS(s) # {},
     aadhar   |-> key \notin NUMERIC_ID_KEYS /\ RE_AADHAR(StripSpace(s)) # {},
     passport |-> RE_PASSPORT(s) # {},
     upi      |-> RE_UPI(s) # {} \/ RE_EMAIL(s) # {} \/ RE_IPV4(s) # {}]

a_found(key, s) ==
    [phone    |-> key \notin NUMERIC_ID_KEYS /\ RE_TEN_DIGITS(s) # {},
     aadhar   |-> key \notin NUMERIC_ID_KEYS /\ RE_AADHAR(StripSpace(s)) # {},
     passport |-> RE_PASSPORT(s) # {},
     upi      |-> RE_UPI(s) # {}]

detect_a_in_value(key, value) == a_found(key, StrOr(value))

(***************************************************************************)
(* redact_value (lines 139-168)                                            *)
(***************************************************************************)
\* lines 145-148: A-class always
redact_a(sval) ==
    mask_upi_in(mask_passport_in(mask_aadhar_digits(mask_phone_digits(sval))))

\* lines 152-153
b_name(key, before, sval) ==
    IF key \in B_NAME_KEYS /\ looks_like_full_name(Text(before))
    THEN mask_name_full(before) ELSE sval

\* lines 154-155: sval[:1] + "X"*max(0, len(sval)-1)
b_name_part(key, sval) ==
    IF key \in {B_FIRST, B_LAST}
    THEN (IF sval = <<>> THEN <<>> ELSE <<sval[1]>> \o Xs(Len(sval) - 1))
    ELSE sval

\* lines 156-157
b_email(key, sval) == IF key \in B_EMAIL_KEYS THEN mask_email_str(sval) ELSE sval

\* lines 158-162
b_address(key, sval, addr_parts, has_addr_field) ==
    IF key \in B_ADDRESS_KEYS THEN hard_redact(sval)
    ELSE IF key \in B_ADDR_PARTS /\ (has_addr_field \/ addr_parts >= 2)
         THEN hard_redact(sval)
         ELSE sval

\* lines 163-164
b_device(key, sval) == IF key \in B_DEVICE_KEYS THEN hard_redact(sval) ELSE sval

\* lines 165-166
b_ip(key, sval) == IF key \in B_IP_KEYS THEN mask_ip_in(sval) ELSE sval

\* lines 151-166: B-class only if >= 2 B-signals
redact_b(key, before, sval, addr_parts, has_addr_field) ==
    b_ip(key,
         b_device(key,
                  b_address(key,
                            b_email(key, b_name_part(key, b_name(key, before, sval))),
                            addr_parts, has_addr_field)))

\* Variant of redact_value: no early return for None.
redact_value_no_none_guard(key, value, do_b, addr_parts, has_addr_field) ==
    IF do_b
    THEN Text(redact_b(key, value.s, redact_a(value.s), addr_parts, has_addr_field))
    ELSE Text(redact_a(value.s))

redact_value(key, value, do_b, addr_parts, has_addr_field) ==
    IF value = None THEN value
    ELSE IF do_b
         THEN Text(redact_b(key, value.s, redact_a(value.s), addr_parts, has_addr_field))
         ELSE Text(redact_a(value.s))

(***************************************************************************)
(* process_record (lines 171-183)                                          *)
(***************************************************************************)
\* line 172: detect_a_in_value(k, v) for every item, and any(any(...))
found_of(obj) == [k \in DOMAIN obj |-> detect_a_in_value(k, obj[k])]

a_hit_of(found) == \E k \in DOMAIN found : \E f \in DOMAIN found[k] : found[k][f]

\* line 178: the email-alone case
EmailAlone(flags) ==
    flags.email /\ ~(flags.name \/ flags.address \/ flags.device_or_ip)

\* Variant of do_b_of: the threshold is 1.
do_b_of_threshold_1(b) == IF EmailAlone(b.flags) THEN FALSE ELSE b.b_count >= 1

\* Variant of is_pii_of: the email-alone case is not looked at.
is_pii_of_no_override(a_hit, b) == a_hit \/ b.b_count >= 2

\* Variant of is_pii_of: the verdict is forced false by the email flag alone,
\* whatever the other flags.
is_pii_of_any_email(a_hit, b) ==
    IF b.flags.email THEN FALSE ELSE (a_hit \/ b.b_count >= 2)

\* lines 174-180: do_b and is_pii, as first set and after the email-alone case
do_b_of(b) == IF EmailAlone(b.flags) THEN FALSE ELSE b.b_count >= 2

is_pii_of(a_hit, b) == IF EmailAlone(b.flags) THEN FALSE ELSE (a_hit \/ b.b_count >= 2)

\* lines 172-183, given the hits found and the result b of count_b_signals
verdict_and_redaction(obj, found, b) ==
    [red |-> [k \in DOMAIN obj |->
                redact_value(k, obj[k], do_b_of(b), b.addr_parts, b.has_addr_field)],
     is_pii |-> is_pii_of(a_hit_of(found), b),
     found |-> found, a_hit |-> a_hit_of(found), b_count |-> b.b_count, flags |-> b.flags,
     addr_parts |-> b.addr_parts, has_addr_field |-> b.has_addr_field,
     do_b |-> do_b_of(b)]

process_record(obj) == verdict_and_redaction(obj, found_of(obj), count_b_signals(obj))

(***************************************************************************)
(* safe_json_load (lines 97-106).  A raw payload is the text of one        *)
(* data_json cell: kind says what the text is, rec is the field mapping    *)
(* it spells when it spells one.                                           *)
(***************************************************************************)
\* json.loads(txt): the Python value, or the exception
JsonLoads1(raw) ==
    CASE raw.kind = "object" -> [py |-> "dict", rec |-> raw.rec]
      [] raw.kind = "null"   -> [py |-> "NoneType", rec |-> <<>>]
      [] raw.kind = "number" -> [py |-> "int", rec |-> <<>>]
      [] raw.kind = "string" -> [py |-> "str", rec |-> <<>>]
      [] raw.kind = "list"   -> [py |-> "list", rec |-> <<>>]
      [] OTHER               -> [py |-> "JSONDecodeError", rec |-> <<>>]

\* json.loads(txt.replace('""', '"').strip('"'))
JsonLoads2(raw) ==
    CASE raw.kind = "csv_object" -> [py |-> "dict", rec |-> raw.rec]
      [] raw.kind = "csv_list"   -> [py |-> "list", rec |-> <<>>]
      [] OTHER                   -> [py |-> "JSONDecodeError", rec |-> <<>>]

safe_json_load(raw) ==
    IF JsonLoads1(raw).py # "JSONDecodeError" THEN JsonLoads1(raw)
    ELSE IF JsonLoads2(raw).py # "JSONDecodeError" THEN JsonLoads2(raw)
    ELSE [py |-> "dict", rec |-> <<>>]

\* obj.items() exists
HasItems(o) == o.py = "dict"

(***************************************************************************)
(* Inputs                                                                  *)
(***************************************************************************)
\* the most fields of a record whose values may hold direct identifiers
MaxFields == 3
\* the most fields of a record of plain quasi-identifier values
MaxSignalFields == 4
\* the most rows of an input file of the batch specification
MaxRows == 3

PHONE == <<"9", "8", "7", "6", "5", "4", "3", "2", "1", "0">>
AADHAR == <<"1", "2", "3", "4", "5", "6", "7", "8", "9", "0", "1", "2">>
AADHAR_GROUPED == <<"1", "2", "3", "4", " ", "5", "6", "7", "8", " ", "9", "0", "1", "2">>
AADHAR_TRAIL == AADHAR \o <<" ", "3", "4", "5", "6", " ", "7", "8", "9", "0">>
PASSPORT == <<"P", "1", "2", "3", "4", "5", "6", "7">>
HANDLE == <<"a", "l", "i", "c", "e", "@", "y", "b", "l">>
SHORT_EMAIL == <<"a", "@", "b", ".", "c", "o">>
EMAIL == <<"a", "l", "i", "c", "e", "@", "e", "x", ".", "c", "o", "m">>
IP == <<"1", "0", ".", "0", ".", "0", ".", "1">>
FULL_NAME == <<"A", "l", " ", "W", "u">>
NAME_PHONE == FULL_NAME \o <<" ">> \o PHONE
ONE_NAME == <<"A", "l">>
WORD == <<"o", "k">>
PIN == <<"5", "6", "0", "0", "0", "1">>

ModelKeys == {"name", "first_name", "last_name", "email", "username", "address",
              "city", "state", "pin_code", "device_id", "ip_address", "order_id",
              "phone"}

\* values that may hold direct identifiers anywhere
FreeValues ==
    {Text(PHONE), Text(AADHAR), Text(AADHAR_GROUPED), Text(AADHAR_TRAIL),
     Text(PASSPORT), Text(HANDLE), Text(SHORT_EMAIL), Text(IP), None}

FieldValues(k) ==
    CASE k = "name"       -> {Text(FULL_NAME), Text(ONE_NAME), Text(NAME_PHONE)}
      [] k = "first_name" -> {Text(ONE_NAME), Text(<<>>)}
      [] k = "last_name"  -> {Text(ONE_NAME)}
      [] k = "email"      -> {Text(EMAIL), Text(WORD)}
      [] k = "username"   -> {Text(EMAIL)}
      [] k = "address"    -> {Text(WORD), Text(<<>>)}
      [] k = "city"       -> {Text(WORD), None}
      [] k = "state"      -> {Text(WORD)}
      [] k = "pin_code"   -> {Num(PIN)}
      [] k = "device_id"  -> {Text(WORD)}
      [] k = "ip_address" -> {Text(IP), Text(WORD)}
      [] k = "order_id"   -> {Text(PHONE), Num(AADHAR), Text(PASSPORT), Text(HANDLE)}
      [] OTHER            -> FreeValues

\* plain values: what a field of that name usually holds, or nothing
PlainValues(k) ==
    CASE k = "name"       -> {Text(FULL_NAME), Text(ONE_NAME)}
      [] k = "first_name" -> {Text(ONE_NAME), Text(<<>>)}
      [] k = "last_name"  -> {Text(ONE_NAME)}
      [] k = "email"      -> {Text(EMAIL), Text(WORD)}
      [] k = "username"   -> {Text(EMAIL)}
      [] k = "address"    -> {Text(WORD), Text(<<>>)}
      [] k = "city"       -> {Text(WORD), None}
      [] k = "state"      -> {Text(WORD)}
      [] k = "pin_code"   -> {Num(PIN)}
      [] k = "device_id"  -> {Text(WORD)}
      [] k = "ip_address" -> {Text(IP), Text(WORD)}
      [] k = "order_id"   -> {Text(PHONE)}
      [] OTHER            -> {Text(PHONE), Text(WORD)}

\* the records over the keys S, of free (wide) or of plain values
RECURSIVE RecordsOver(_, _)
RecordsOver(S, wide) ==
    IF S = {} THEN {<<>>}
    ELSE LET k == CHOOSE x \in S : TRUE
         IN  {[x \in DOMAIN r \cup {k} |-> IF x = k THEN v ELSE r[x]] :
                r \in RecordsOver(S \ {k}, wide),
                v \in IF wide THEN FieldValues(k) ELSE PlainValues(k)}

KeySets(n) == {T \in SUBSET ModelKeys : Cardinality(T) <= n}

WideRecords == UNION {RecordsOver(S, TRUE) : S \in KeySets(MaxFields)}

SignalRecords == UNION {RecordsOver(S, FALSE) : S \in KeySets(MaxSignalFields)}

Object(r) == [kind |-> "object", rec |-> r]

NotAMapping ==
    {[kind |-> k, rec |-> <<>>] :
        k \in {"empty", "garbage", "null", "number", "string", "list", "csv_list"}}

CsvObject == [kind |-> "csv_object", rec |-> [email |-> Text(EMAIL)]]

\* input files of one row
WideFiles == {<<p>> : p \in {Object(r) : r \in WideRecords} \cup NotAMapping \cup {CsvObject}}

SignalFiles ==
    {<<p>> : p \in {Object(r) : r \in SignalRecords} \cup NotAMapping \cup {CsvObject}}

\* input files of up to MaxRows rows
BatchPayloads ==
    NotAMapping \cup {Object(<<>>), Object([phone |-> Text(PHONE)]), CsvObject}

BatchFiles == UNION {[1..n -> BatchPayloads] : n \in 0..MaxRows}

(***************************************************************************)
(* main (lines 206-213) as a state machine                                 *)
(***************************************************************************)
VARIABLES
    pc,        \* "loop": in the for loop; "raised": an exception left main;
               \* "done": the loop ended
    rows,      \* the rows of the input file not read yet
    raw,       \* the payload of the row read last
    obj,       \* the record given to process_record last
    red,       \* the redacted record it returned
    is_pii,    \* the verdict it returned
    locals,    \* the locals of that call: found, a_hit, b_count, flags, do_b, ...
    written,   \* rows written to the output file
    pass       \* 0: nothing processed; 1: obj came from the input file;
               \* 2: obj is the redacted record of pass 1

vars == <<pc, rows, raw, obj, red, is_pii, locals, written, pass>>

NoLocals == [found |-> <<>>, a_hit |-> FALSE, b_count |-> 0,
             flags |-> [name |-> FALSE, email |-> FALSE, address |-> FALSE,
                        device_or_ip |-> FALSE],
             addr_parts |-> 0, has_addr_field |-> FALSE, do_b |-> FALSE]

Start(file) ==
    /\ pc = "loop"
    /\ rows = file
    /\ raw = [kind |-> "empty", rec |-> <<>>]
    /\ obj = <<>>
    /\ red = <<>>
    /\ is_pii = FALSE
    /\ locals = NoLocals
    /\ written = 0
    /\ pass = 0

Init == \E file \in WideFiles : Start(file)

InitSignals == \E file \in SignalFiles : Start(file)

InitBatch == \E file \in BatchFiles : Start(file)

\* process_record(obj) called and its result kept
Call(o) ==
    \E p \in {process_record(o)} :
        /\ obj' = o
        /\ red' = p.red
        /\ is_pii' = p.is_pii
        /\ locals' = [found |-> p.found, a_hit |-> p.a_hit, b_count |-> p.b_count, flags |-> p.flags,
                      addr_parts |-> p.addr_parts,
                      has_addr_field |-> p.has_addr_field, do_b |-> p.do_b]

\* one iteration of the loop: load, process, write
RowOk ==
    /\ pc = "loop"
    /\ rows # <<>>
    /\ HasItems(safe_json_load(Head(rows)))
    /\ Call(safe_json_load(Head(rows)).rec)
    /\ raw' = Head(rows)
    /\ rows' = Tail(rows)
    /\ written' = written + 1
    /\ pass' = 1
    /\ UNCHANGED pc

\* one iteration of the loop: obj.items() raises AttributeError, which nothing catches
RowRaise ==
    /\ pc = "loop"
    /\ rows # <<>>
    /\ ~HasItems(safe_json_load(Head(rows)))
    /\ raw' = Head(rows)
    /\ pc' = "raised"
    /\ UNCHANGED <<rows, obj, red, is_pii, locals, written, pass>>

\* the reader is exhausted
Finish ==
    /\ pc = "loop"
    /\ rows = <<>>
    /\ pc' = "done"
    /\ UNCHANGED <<rows, raw, obj, red, is_pii, locals, written, pass>>

\* the redacted record of the last row is given to process_record again
Reprocess ==
    /\ pc = "done"
    /\ pass = 1
    /\ Call(red)
    /\ pass' = 2
    /\ UNCHANGED <<pc, rows, raw, written>>

Next == RowOk \/ RowRaise \/ Finish \/ Reprocess

Spec == Init /\ [][Next]_vars

SpecSignals == InitSignals /\ [][Next]_vars

SpecBatch == InitBatch /\ [][Next]_vars

(***************************************************************************)
(* Properties                                                              *)
(***************************************************************************)
\* the number of true signals among name, email, address and device-or-IP
TrueCount(flags) ==
    (IF flags.name THEN 1 ELSE 0) + (IF flags.email THEN 1 ELSE 0)
        + (IF flags.address THEN 1 ELSE 0) + (IF flags.device_or_ip THEN 1 ELSE 0)

\* the email-only override applies
EmailOnly(flags) ==
    flags.email /\ ~flags.name /\ ~flags.address /\ ~flags.device_or_ip

\* the fields of the record that hold a value
Present == {k \in DOMAIN obj : obj[k] # None}

\* what a text holds of each direct-identifier type
PhoneRuns(s)  == {SubSeq(s, m, m + 9) : m \in RE_TEN_DIGITS(s)}
AadharRuns(s) == {SubSeq(s, m, m + 11) : m \in RE_AADHAR(s)}
Passports(s)  == {SubSeq(s, m, m + 7) : m \in RE_PASSPORT(s)}
Handles(s)    == {SubSeq(s, m.st, m.en) : m \in RE_UPI(s)}
\* the handles whose masked form differs from them (more than 2 characters
\* before the "@", not all of them the mask character)
OpenHandles(s) ==
    {SubSeq(s, m.st, m.en) :
        m \in {n \in RE_UPI(s) : \E i \in (n.st + 2)..(n.at - 1) : s[i] # "X"}}

\* a value matches one of the four types detect_a_in_value knows, under key k
FourTypeMatch(k, v) ==
    \/ k \notin NUMERIC_ID_KEYS /\ RE_TEN_DIGITS(StrOr(v)) # {}
    \/ k \notin NUMERIC_ID_KEYS /\ RE_AADHAR(StripSpace(StrOr(v))) # {}
    \/ RE_PASSPORT(StrOr(v)) # {}
    \/ RE_UPI(StrOr(v)) # {}

\* a value matches one of the six types of the Pattern Library, under key k
SixTypeMatch(k, v) ==
    \/ FourTypeMatch(k, v)
    \/ RE_EMAIL(StrOr(v)) # {}
    \/ RE_IPV4(StrOr(v)) # {}

\* C1: the verdict is true exactly when (some field gives a direct hit of
\* detect_a_in_value or at least 2 of the four signals are true) and the
\* email-only override does not apply; with the email signal alone the verdict
\* is false whatever the other fields hold.
C1_Verdict ==
    pass >= 1 =>
        /\ is_pii = ( /\ \/ \E k \in DOMAIN obj :
                              \E f \in {"phone", "aadhar", "passport", "upi"} :
                                  locals.found[k][f]
                         \/ TrueCount(locals.flags) >= 2
                      /\ ~EmailOnly(locals.flags) )
        /\ EmailOnly(locals.flags) => ~is_pii

\* C1 witness: the email signal alone, a phone number in a field that is no
\* email field, and the verdict false.
C1_Witness ==
    /\ pass = 1
    /\ EmailOnly(locals.flags)
    /\ \E k \in DOMAIN obj \ B_EMAIL_KEYS : locals.found[k].phone
    /\ ~is_pii

\* C2: whatever the verdict and the combination flag, the output of every
\* field that holds a value contains none of the 10-digit runs, 12-digit runs,
\* passport codes or payment handles the input held.
C2_AlwaysMasked ==
    pass >= 1 =>
        \A k \in Present :
            /\ PhoneRuns(obj[k].s) \cap PhoneRuns(red[k].s) = {}
            /\ AadharRuns(obj[k].s) \cap AadharRuns(red[k].s) = {}
            /\ Passports(obj[k].s) \cap Passports(red[k].s) = {}
            /\ OpenHandles(obj[k].s) \cap Handles(red[k].s) = {}

\* C3 as stated: direct_hit is true whenever a field matches one of the six
\* Pattern Library types, and a record that holds an IPv4 address, with fewer
\* than 2 signals and no email-only override, is PII.
C3_SixTypes ==
    pass >= 1 =>
        /\ (\E k \in DOMAIN obj : SixTypeMatch(k, obj[k])) => locals.a_hit
        /\ ( /\ \E k \in DOMAIN obj : RE_IPV4(StrOr(obj[k])) # {}
             /\ TrueCount(locals.flags) < 2
             /\ ~EmailOnly(locals.flags) ) => is_pii

\* C3 amended: direct_hit is true exactly when a field matches one of the four
\* types phone, national ID, passport, payment handle (after the exemption);
\* an email address or an IPv4 address is no direct hit, so a record with no
\* such match and fewer than 2 signals is not PII.
C3_FourTypes ==
    pass >= 1 =>
        /\ locals.a_hit = (\E k \in DOMAIN obj : FourTypeMatch(k, obj[k]))
        /\ ( /\ ~\E k \in DOMAIN obj : FourTypeMatch(k, obj[k])
             /\ TrueCount(locals.flags) < 2 ) => ~is_pii

\* C3 witness: a record whose only identifying content is an IPv4 address in a
\* field that is no IP field: no direct hit, verdict false.
C3_Witness ==
    /\ pass = 1
    /\ \E k \in DOMAIN obj \ B_IP_KEYS : RE_IPV4(StrOr(obj[k])) # {}
    /\ TrueCount(locals.flags) = 0
    /\ ~locals.a_hit
    /\ ~is_pii

C5_BadRowDegrades ==
    /\ pc # "raised"
    /\ (written >= 1 /\ raw \in NotAMapping) =>
            (obj = <<>> /\ red = <<>> /\ ~is_pii)

\* C6: process_record applied to the record it returned gives that record back.
C6_Idempotent == pass = 2 => red = obj

\* C7: the redacted record has the keys of the input, and a field whose value
\* is absent has an absent value in the output.
C7_KeysKept ==
    pass >= 1 =>
        /\ DOMAIN red = DOMAIN obj
        /\ \A k \in DOMAIN obj : obj[k] = None => red[k] = None

\* C7 witness: an absent value in a record that is combination-redacted.
C7_Witness ==
    /\ pass = 1
    /\ locals.do_b
    /\ is_pii
    /\ \E k \in DOMAIN obj : obj[k] = None /\ red[k] = None

\* the quasi-identifier fields
QuasiKeys ==
    B_NAME_KEYS \cup {B_FIRST, B_LAST} \cup B_ADDRESS_KEYS \cup B_ADDR_PARTS
        \cup B_DEVICE_KEYS \cup B_IP_KEYS

\* C8: with fewer than 2 true signals (or the email-only override) every name,
\* name-part, address, address-part, device and IP field whose value holds no
\* direct-identifier pattern is returned with its text unchanged; a record of
\* city, state and postal code with no other signal has signal count 1, is not
\* PII, and none of the three is replaced by the redaction marker.
C8_BelowThreshold ==
    pass >= 1 =>
        /\ (TrueCount(locals.flags) < 2 \/ EmailOnly(locals.flags)) =>
                \A k \in Present \cap QuasiKeys :
                    ~FourTypeMatch(k, obj[k]) => red[k].s = obj[k].s
        /\ ( /\ \A k \in B_ADDR_PARTS : k \in DOMAIN obj /\ Truthy(obj[k])
             /\ ~locals.flags.name /\ ~locals.flags.email
             /\ ~locals.flags.device_or_ip
             /\ ~locals.a_hit ) =>
                /\ locals.b_count = 1
                /\ ~is_pii
                /\ \A k \in B_ADDR_PARTS : red[k].s = obj[k].s

\* C8 witness: city, state and postal code, nothing else.
C8_Witness ==
    /\ pass = 1
    /\ DOMAIN obj = B_ADDR_PARTS
    /\ \A k \in B_ADDR_PARTS : Truthy(obj[k]) /\ red[k].s = obj[k].s
    /\ locals.b_count = 1
    /\ ~is_pii

\* rec.get(k) is a non-empty value
NonEmpty(k) == k \in DOMAIN obj /\ obj[k] # None /\ obj[k].s # <<>>

C10_RedactedIsPii ==
    pass >= 1 =>
        /\ locals.do_b => is_pii
        /\ EmailOnly(locals.flags) => locals.b_count = 1
        /\ (EmailOnly(locals.flags) /\ (locals.a_hit \/ locals.b_count >= 2)) =>
                (locals.a_hit /\ locals.b_count < 2 /\ ~locals.do_b /\ ~is_pii)
        /\ locals.do_b = (locals.b_count >= 2)

\* C10 witness: the override changes the verdict of a record with a direct hit.
C10_Witness ==
    /\ pass = 1
    /\ EmailOnly(locals.flags)
    /\ locals.a_hit
    /\ ~is_pii
    /\ ~locals.do_b

====
